---- MODULE Spec2Model ----
(***************************************************************************)
(* Model of openmdao/devtools/problem_viewer/problem_viewer.py:             *)
(* _get_viewer_data and _get_tree_dict, run by every MPI process of a       *)
(* build.  Pathnames are Python strings, modelled as sequences of          *)
(* one-character strings so that rsplit and sorted act on characters.      *)
(***************************************************************************)
EXTENDS Integers, Sequences, FiniteSets, TLC

(* ------------------------------------------------------------------ *)
(* Bounds                                                               *)
(* ------------------------------------------------------------------ *)
\* largest number of inputs of one model that have a defined source
MaxConnected == 4

(* ------------------------------------------------------------------ *)
(* Python strings                                                       *)
(* ------------------------------------------------------------------ *)
\* code points of the characters used in pathnames
Ord ==
  " " :> 32 @@ "." :> 46 @@ ">" :> 62 @@ "A" :> 65 @@ "B" :> 66 @@ "C" :> 67 @@
  "D" :> 68 @@ "G" :> 71 @@ "P" :> 80 @@ "x" :> 120 @@ "y" :> 121 @@ "z" :> 122

\* Python's None
None == <<>>

RECURSIVE StrLess(_, _)
\* a < b on Python strings
StrLess(a, b) ==
  IF a = <<>> THEN b # <<>>
  ELSE IF b = <<>> THEN FALSE
  ELSE IF Head(a) = Head(b) THEN StrLess(Tail(a), Tail(b))
  ELSE Ord[Head(a)] < Ord[Head(b)]

\* position of the last '.' of s, 0 when there is none
LastDot(s) ==
  LET ds == {i \in 1..Len(s) : s[i] = "."}
  IN  IF ds = {} THEN 0 ELSE CHOOSE i \in ds : \A j \in ds : j <= i

\* s.rsplit('.', 1)[0]
rsplit0(s) == IF LastDot(s) = 0 THEN s ELSE SubSeq(s, 1, LastDot(s) - 1)

\* s.rsplit('.', 1)[-1]
rsplit1(s) == SubSeq(s, LastDot(s) + 1, Len(s))

\* ' '.join([a, b])
JoinSpace(a, b) == a \o <<" ">> \o b

(* ------------------------------------------------------------------ *)
(* Hierarchies handed to the viewer                                     *)
(* ------------------------------------------------------------------ *)
Sub(parent, nm) == IF parent = <<>> THEN <<nm>> ELSE parent \o <<".", nm>>

Root == <<>>
cA == Sub(Root, "A")
cB == Sub(Root, "B")
cC == Sub(Root, "C")
gG == Sub(Root, "G")
gP == Sub(Root, "P")

Leaf(path, cls, ins, outs, comm) ==
  [cls |-> cls, subsystems |-> <<>>, comm |-> comm,
   input |-> [i \in 1..Len(ins) |-> Sub(path, ins[i])],
   output |-> [i \in 1..Len(outs) |-> Sub(path, outs[i])]]

Composite(cls, subs, comm) ==
  [cls |-> cls, subsystems |-> subs, comm |-> comm, input |-> <<>>, output |-> <<>>]

\* root -> A, B   (one process)
HPair ==
  Root :> Composite("Group", <<cA, cB>>, <<0>>) @@
  cA :> Leaf(cA, "ExecComp", <<"x">>, <<"y">>, <<0>>) @@
  cB :> Leaf(cB, "ExecComp", <<"x">>, <<"y">>, <<0>>)

\* root -> A, C, B   (one process; B and C have two inputs)
HFlat ==
  Root :> Composite("Group", <<cA, cC, cB>>, <<0>>) @@
  cA :> Leaf(cA, "IndepVarComp", <<"x">>, <<"y">>, <<0>>) @@
  cB :> Leaf(cB, "ExplicitComponent", <<"x", "z">>, <<"y">>, <<0>>) @@
  cC :> Leaf(cC, "ImplicitComponent", <<"x", "z">>, <<"y">>, <<0>>)

\* root -> G -> (G.C, G.B), then A   (one process)
HNested ==
  Root :> Composite("Group", <<gG, cA>>, <<0>>) @@
  gG :> Composite("Group", <<Sub(gG, "C"), Sub(gG, "B")>>, <<0>>) @@
  Sub(gG, "C") :> Leaf(Sub(gG, "C"), "ExecComp", <<"x">>, <<"y">>, <<0>>) @@
  Sub(gG, "B") :> Leaf(Sub(gG, "B"), "MetaModelStructuredComp", <<"x">>, <<"y">>, <<0>>) @@
  cA :> Leaf(cA, "Component", <<"x">>, <<"y">>, <<0>>)

\* root -> P (parallel: P.A on rank 0, P.B on rank 1), then C   (two processes)
HPar2 ==
  Root :> Composite("Group", <<gP, cC>>, <<0, 1>>) @@
  gP :> Composite("ParallelGroup", <<Sub(gP, "A"), Sub(gP, "B")>>, <<0, 1>>) @@
  Sub(gP, "A") :> Leaf(Sub(gP, "A"), "ExecComp", <<"x">>, <<"y">>, <<0>>) @@
  Sub(gP, "B") :> Leaf(Sub(gP, "B"), "ExecComp", <<>>, <<"y">>, <<1>>) @@
  cC :> Leaf(cC, "ExecComp", <<"x">>, <<"y">>, <<0, 1>>)

\* root -> P (parallel: P.A on ranks 0 and 1, P.B on rank 2)   (three processes)
HPar3 ==
  Root :> Composite("Group", <<gP>>, <<0, 1, 2>>) @@
  gP :> Composite("ParallelGroup", <<Sub(gP, "A"), Sub(gP, "B")>>, <<0, 1, 2>>) @@
  Sub(gP, "A") :> Leaf(Sub(gP, "A"), "ExecComp", <<>>, <<"y">>, <<0, 1>>) @@
  Sub(gP, "B") :> Leaf(Sub(gP, "B"), "ExecComp", <<"x">>, <<>>, <<2>>)

\* root -> P (parallel: one leaf per rank)   (four processes)
HPar4 ==
  Root :> Composite("Group", <<gP>>, <<0, 1, 2, 3>>) @@
  gP :> Composite("ParallelGroup",
                  <<Sub(gP, "A"), Sub(gP, "B"), Sub(gP, "C"), Sub(gP, "D")>>,
                  <<0, 1, 2, 3>>) @@
  Sub(gP, "A") :> Leaf(Sub(gP, "A"), "ExecComp", <<"x">>, <<>>, <<0>>) @@
  Sub(gP, "B") :> Leaf(Sub(gP, "B"), "ExecComp", <<>>, <<"y">>, <<1>>) @@
  Sub(gP, "C") :> Leaf(Sub(gP, "C"), "ExecComp", <<>>, <<>>, <<2>>) @@
  Sub(gP, "D") :> Leaf(Sub(gP, "D"), "ExecComp", <<>>, <<>>, <<3>>)

Hierarchies == {HPair, HFlat, HNested, HPar2, HPar3, HPar4}

\* what the caller hands to _get_viewer_data
DataSources ==
  {[kind |-> "Problem", model |-> "Group", driver |-> "ScipyOptimizeDriver"],
   [kind |-> "Problem", model |-> "Group", driver |-> "DOEDriver"],
   [kind |-> "Problem", model |-> "Component", driver |-> "Driver"],
   [kind |-> "Group", model |-> "root", driver |-> "None"],
   [kind |-> "Group", model |-> "subgroup", driver |-> "None"],
   [kind |-> "str", model |-> "cases.sql", driver |-> "None"],
   [kind |-> "int", model |-> "None", driver |-> "None"]}

GroupClasses == {"Group", "ParallelGroup"}

isGroup(h, s) == h[s].cls \in GroupClasses

Systems(h) == DOMAIN h

Components(h) == {s \in Systems(h) : ~isGroup(h, s)}

ToSet(seq) == {seq[i] : i \in 1..Len(seq)}

AllInputs(h) == UNION {ToSet(h[s].input) : s \in Components(h)}

AllOutputs(h) == UNION {ToSet(h[s].output) : s \in Components(h)}

\* the global input-to-source maps a hierarchy can have: every input has an
\* entry whose source is None or an output of another component
ConnMaps(h) ==
  {f \in [AllInputs(h) -> AllOutputs(h) \cup {None}] :
     /\ \A i \in AllInputs(h) : f[i] # None => rsplit0(f[i]) # rsplit0(i)
     /\ Cardinality({i \in AllInputs(h) : f[i] # None}) <= MaxConnected}

\* iteration orders of a dict with the keys of f: the rotations of the
\* ascending and of the descending listing of its keys
Orderings(f) ==
  LET n == Cardinality(DOMAIN f)
      up == CHOOSE q \in [1..n -> DOMAIN f] :
              \A i, j \in 1..n : i < j => StrLess(q[i], q[j])
      down == [i \in 1..n |-> up[n + 1 - i]]
      rot(q, k) == [i \in 1..n |-> q[((i + k - 1) % n) + 1]]
  IN  IF n = 0 THEN {<<>>}
      ELSE {rot(up, k) : k \in 0..(n - 1)} \cup {rot(down, k) : k \in 0..(n - 1)}

(* ------------------------------------------------------------------ *)
(* State                                                                *)
(* ------------------------------------------------------------------ *)
VARIABLES
  data_source,            \* the argument of _get_viewer_data
  model,                  \* the system hierarchy behind data_source
  conn_global_abs_in2out, \* per process: root_group._conn_global_abs_in2out, in iteration order
  in2out_before,          \* per process: that map as it was when _get_viewer_data was called
  pc,                     \* per process: position in _get_viewer_data
  stack,                  \* per process: active calls of _get_tree_dict
  comp_exec_orders,       \* per process: pathname -> execution index
  comp_exec_idx,          \* per process: comp_exec_idx[0]
  allgather,              \* per system and rank of its communicator: the lists handed to comm.allgather
  tree,                   \* per process: data_dict['tree']
  sorted_abs_input2src,   \* per process: the sorted items
  G,                      \* per process: the component graph
  scc_list,               \* per process: the SCCs with more than one member
  pos,                    \* per process: position of the loop over sorted_abs_input2src
  pending,                \* per process: edges of subg not yet visited
  edges_list,             \* per process: cycle arrows of the current connection
  sys_pathnames_list,     \* per process
  sys_pathnames_dict,     \* per process
  connections_list,       \* per process
  result                  \* per process: the returned value

treeVars == <<stack, comp_exec_orders, comp_exec_idx, allgather, tree>>
connVars == <<sorted_abs_input2src, G, scc_list, pos, pending, edges_list,
              sys_pathnames_list, sys_pathnames_dict, connections_list>>
vars == <<data_source, model, conn_global_abs_in2out, in2out_before, pc, treeVars, connVars, result>>

Procs == {r : r \in ToSet(model[Root].comm)}

EmptyDict == <<>>

Init ==
  /\ data_source \in DataSources
  /\ model \in Hierarchies
  /\ model # HPair => data_source = [kind |-> "Problem", model |-> "Group",
                                     driver |-> "ScipyOptimizeDriver"]
  /\ \E f \in ConnMaps(model) : \E q \in Orderings(f) :
       conn_global_abs_in2out =
         [p \in Procs |-> [i \in 1..Len(q) |-> <<q[i], f[q[i]]>>]]
  /\ in2out_before = conn_global_abs_in2out
  /\ pc = [p \in Procs |-> "start"]
  /\ stack = [p \in Procs |-> <<>>]
  /\ comp_exec_orders = [p \in Procs |-> EmptyDict]
  /\ comp_exec_idx = [p \in Procs |-> 0]
  /\ allgather = [s \in Systems(model) |-> [r \in 0..(Len(model[s].comm) - 1) |-> <<>>]]
  /\ tree = [p \in Procs |-> None]
  /\ sorted_abs_input2src = [p \in Procs |-> <<>>]
  /\ G = [p \in Procs |-> {}]
  /\ scc_list = [p \in Procs |-> {}]
  /\ pos = [p \in Procs |-> 0]
  /\ pending = [p \in Procs |-> {}]
  /\ edges_list = [p \in Procs |-> <<>>]
  /\ sys_pathnames_list = [p \in Procs |-> <<>>]
  /\ sys_pathnames_dict = [p \in Procs |-> EmptyDict]
  /\ connections_list = [p \in Procs |-> <<>>]
  /\ result = [p \in Procs |-> None]

(* ------------------------------------------------------------------ *)
(* _get_tree_dict                                                       *)
(* ------------------------------------------------------------------ *)
\* system.name
name(s) == rsplit1(s)

\* system._subsystems_myproc on process p
subsystems_myproc(s, p) ==
  SelectSeq(model[s].subsystems, LAMBDA c : p \in ToSet(model[c].comm))

\* system.comm.rank on process p
comm_rank(s, p) ==
  (CHOOSE i \in 1..Len(model[s].comm) : model[s].comm[i] = p) - 1

\* system.comm.size
comm_size(s) == Len(model[s].comm)

_get_var_dict(s, typ, abs_name) ==
  IF typ = "input"
  THEN [name |-> rsplit1(abs_name), type |-> "param", dtype |-> "ndarray"]
  ELSE [name |-> rsplit1(abs_name), type |-> "unknown",
        implicit |-> (model[s].cls = "ImplicitComponent"), dtype |-> "ndarray"]

component_type(s) ==
  CASE model[s].cls = "ImplicitComponent" -> "implicit"
    [] model[s].cls = "ExecComp" -> "exec"
    [] model[s].cls \in {"MetaModelStructuredComp", "MetaModelUnStructuredComp"} -> "metamodel"
    [] model[s].cls = "IndepVarComp" -> "indep"
    [] model[s].cls = "ExplicitComponent" -> "explicit"
    [] OTHER -> "None"

\* the children of a component: its inputs, then its outputs
var_children(s) ==
  [i \in 1..Len(model[s].input) |-> _get_var_dict(s, "input", model[s].input[i])] \o
  [i \in 1..Len(model[s].output) |-> _get_var_dict(s, "output", model[s].output[i])]

\* tree_dict as returned; the solver labels are copied from the system and
\* are left out
tree_dict(s, subsystem_type, ctype, is_parallel, children) ==
  [name |-> IF name(s) = <<>> THEN <<"root">> ELSE name(s),
   type |-> IF name(s) = <<>> THEN "root" ELSE "subsystem",
   subsystem_type |-> subsystem_type,
   component_type |-> ctype,
   is_parallel |-> is_parallel,
   children |-> children]

top(p) == stack[p][Len(stack[p])]

SetTop(p, f) == [stack EXCEPT ![p] = [@ EXCEPT ![Len(@)] = f]]

\* the call _get_tree_dict(s, ...) made by the frame on top of the stack
\* for a component s: lines 67-92 and 113-141
VisitComponent(p) ==
  /\ pc[p] = "tree"
  /\ LET f == top(p)
         my == subsystems_myproc(f.system, p)
     IN  /\ f.i <= Len(my)
         /\ ~isGroup(model, my[f.i])
         /\ comp_exec_orders' =
              [comp_exec_orders EXCEPT ![p] = (my[f.i] :> comp_exec_idx[p]) @@ @]
         /\ comp_exec_idx' = [comp_exec_idx EXCEPT ![p] = @ + 1]
         /\ stack' = SetTop(p, [f EXCEPT
                 !.i = @ + 1,
                 !.children = Append(@, tree_dict(my[f.i], "component",
                                                  component_type(my[f.i]),
                                                  f.is_parallel,
                                                  var_children(my[f.i])))])
  /\ UNCHANGED <<data_source, model, in2out_before, conn_global_abs_in2out, pc, allgather, tree,
                 connVars, result>>

\* the call _get_tree_dict(s, ...) for a composite s: lines 94-100, up to the
\* first recursive call
EnterGroup(p) ==
  /\ pc[p] = "tree"
  /\ LET f == top(p)
         my == subsystems_myproc(f.system, p)
     IN  /\ f.i <= Len(my)
         /\ isGroup(model, my[f.i])
         /\ stack' = [stack EXCEPT ![p] = Append(@,
                 [system |-> my[f.i], i |-> 1, children |-> <<>>,
                  is_parallel |-> (f.is_parallel \/ model[my[f.i]].cls = "ParallelGroup")])]
  /\ UNCHANGED <<data_source, model, in2out_before, conn_global_abs_in2out, pc, comp_exec_orders,
                 comp_exec_idx, allgather, tree, connVars, result>>

\* lines 113-141 of a composite, and the return to the caller
Return(p, children) ==
  LET f == top(p)
      d == tree_dict(f.system, "group", "None", f.is_parallel, children)
      rest == SubSeq(stack[p], 1, Len(stack[p]) - 1)
  IN  IF rest = <<>>
      THEN /\ stack' = [stack EXCEPT ![p] = <<>>]
           /\ tree' = [tree EXCEPT ![p] = d]
           /\ pc' = [pc EXCEPT ![p] = "tree_done"]
      ELSE /\ stack' = [stack EXCEPT ![p] =
                 [rest EXCEPT ![Len(rest)] =
                    [@ EXCEPT !.i = @ + 1, !.children = Append(@, d)]]]
           /\ tree' = tree
           /\ pc' = [pc EXCEPT ![p] = "tree"]

\* a composite on a communicator of one process: lines 100-102, 113-141
ReturnGroup(p) ==
  /\ pc[p] = "tree"
  /\ LET f == top(p)
     IN  /\ f.i > Len(subsystems_myproc(f.system, p))
         /\ comm_size(f.system) <= 1
         /\ Return(p, f.children)
  /\ UNCHANGED <<data_source, model, in2out_before, conn_global_abs_in2out, comp_exec_orders,
                 comp_exec_idx, allgather, connVars, result>>

\* lines 103-106 without the rank test: every process hands over its list
contributed_children_all(p, f) == f.children

\* lines 103-106: the children list process p hands to the gather of the
\* composite of frame f
contributed_children(p, f) ==
  LET my == subsystems_myproc(f.system, p)
  IN  IF my # <<>> /\ comm_rank(my[1], p) # 0 THEN <<>> ELSE f.children

\* lines 102-107: the process enters system.comm.allgather(children)
Allgather(p) ==
  /\ pc[p] = "tree"
  /\ LET f == top(p)
         my == subsystems_myproc(f.system, p)
         children == contributed_children(p, f)
     IN  /\ f.i > Len(my)
         /\ comm_size(f.system) > 1
         /\ allgather' = [allgather EXCEPT ![f.system][comm_rank(f.system, p)] =
                 Append(@, children)]
  /\ pc' = [pc EXCEPT ![p] = "allgather"]
  /\ UNCHANGED <<data_source, model, in2out_before, conn_global_abs_in2out, stack, comp_exec_orders,
                 comp_exec_idx, tree, connVars, result>>

\* the contribution of rank r to the gather of composite s
Contribution(s, r) == allgather[s][r][1]

RECURSIVE Extend(_, _, _)
\* lines 109-111: the contributions of ranks r..size-1 of s, concatenated
Extend(s, r, size) ==
  IF r >= size THEN <<>> ELSE Contribution(s, r) \o Extend(s, r + 1, size)

\* lines 107-141: allgather returns once every rank of the communicator has
\* entered it
AllgatherReturn(p) ==
  /\ pc[p] = "allgather"
  /\ LET f == top(p)
     IN  /\ \A r \in 0..(comm_size(f.system) - 1) : allgather[f.system][r] # <<>>
         /\ Return(p, Extend(f.system, 0, comm_size(f.system)))
  /\ UNCHANGED <<data_source, model, in2out_before, conn_global_abs_in2out, comp_exec_orders,
                 comp_exec_idx, allgather, connVars, result>>

(* ------------------------------------------------------------------ *)
(* _get_declare_partials                                                *)
(* ------------------------------------------------------------------ *)
\* system._subjacs_info of a component: every output against every input
subjacs(s) ==
  [k \in 1..(Len(model[s].output) * Len(model[s].input)) |->
     <<model[s].output[((k - 1) \div Len(model[s].input)) + 1],
       model[s].input[((k - 1) % Len(model[s].input)) + 1]>>]

RECURSIVE recurse_get_partials(_, _, _)
\* the entries added for the subsystems i.. of composite s, or for component s
recurse_get_partials(s, p, i) ==
  IF ~isGroup(model, s)
  THEN [k \in 1..Len(subjacs(s)) |-> subjacs(s)[k][1] \o <<" ", ">", " ">> \o subjacs(s)[k][2]]
  ELSE IF i > Len(subsystems_myproc(s, p)) THEN <<>>
  ELSE recurse_get_partials(subsystems_myproc(s, p)[i], p, 1) \o
       recurse_get_partials(s, p, i + 1)

_get_declare_partials(s, p) == recurse_get_partials(s, p, 1)

(* ------------------------------------------------------------------ *)
(* _get_viewer_data                                                     *)
(* ------------------------------------------------------------------ *)
\* CaseReader(data_source, pre_load=False).problem_metadata
problem_metadata ==
  [tree |-> "stored", sys_pathnames_list |-> "stored", connections_list |-> "stored",
   abs2prom |-> "stored", driver |-> "stored", design_vars |-> "stored",
   responses |-> "stored", declare_partials_list |-> "stored"]

\* lines 190-220 without the pathname test of line 206: any Group is built
dispatch_any_group(ds) ==
  IF ds.kind = "Problem"
  THEN IF ds.model # "Group" THEN "return {}" ELSE "build"
  ELSE IF ds.kind = "Group" THEN "build"
  ELSE IF ds.kind = "str" THEN "return problem_metadata"
  ELSE "raise TypeError"

\* lines 190-220: what _get_viewer_data does with a data source
dispatch(ds) ==
  IF ds.kind = "Problem"
  THEN IF ds.model # "Group" THEN "return {}" ELSE "build"
  ELSE IF ds.kind = "Group"
  THEN IF ds.model = "root" THEN "build" ELSE "return {}"
  ELSE IF ds.kind = "str" THEN "return problem_metadata"
  ELSE "raise TypeError"

\* lines 190-225: the dispatch on the kind of data_source, and the call of
\* _get_tree_dict on the root group
Start(p) ==
  /\ pc[p] = "start"
  /\ IF dispatch(data_source) = "return {}"
     THEN /\ pc' = [pc EXCEPT ![p] = "done"]
          /\ result' = [result EXCEPT ![p] = EmptyDict]
          /\ stack' = stack
     ELSE IF dispatch(data_source) = "return problem_metadata"
     THEN /\ pc' = [pc EXCEPT ![p] = "done"]
          /\ result' = [result EXCEPT ![p] = problem_metadata]
          /\ stack' = stack
     ELSE IF dispatch(data_source) = "raise TypeError"
     THEN /\ pc' = [pc EXCEPT ![p] = "TypeError"]
          /\ result' = result
          /\ stack' = stack
     ELSE /\ pc' = [pc EXCEPT ![p] = "tree"]
          /\ result' = result
          /\ stack' = [stack EXCEPT ![p] =
                 <<[system |-> Root, i |-> 1, children |-> <<>>,
                    is_parallel |-> (model[Root].cls = "ParallelGroup")]>>]
  /\ UNCHANGED <<data_source, model, in2out_before, conn_global_abs_in2out, comp_exec_orders,
                 comp_exec_idx, allgather, tree, connVars>>

\* a < b on the items (in_abs, out_abs) of the connection map
ItemLess(a, b) ==
  \/ StrLess(a[1], b[1])
  \/ a[1] = b[1] /\ StrLess(a[2], b[2])

RECURSIVE InsertItem(_, _)
InsertItem(x, s) ==
  IF s = <<>> THEN <<x>>
  ELSE IF ItemLess(x, Head(s)) THEN <<x>> \o s
  ELSE <<Head(s)>> \o InsertItem(x, Tail(s))

\* line 233 without the sort: the items in the iteration order of the map
sorted_noop(s) == s

\* line 233 losing the first item of the map
sorted_lossy(s) == IF s = <<>> THEN s ELSE Tail(s)

RECURSIVE sorted(_)
\* sorted(items), line 233
sorted(s) == IF s = <<>> THEN <<>> ELSE InsertItem(s[Len(s)], sorted(SubSeq(s, 1, Len(s) - 1)))

\* a < b on lists [src, tgt] of indices
EdgeLess(a, b) == a[1] < b[1] \/ (a[1] = b[1] /\ a[2] < b[2])

RECURSIVE InsertEdge(_, _)
InsertEdge(x, s) ==
  IF s = <<>> THEN <<x>>
  ELSE IF EdgeLess(x, Head(s)) THEN <<x>> \o s
  ELSE <<Head(s)>> \o InsertEdge(x, Tail(s))

RECURSIVE sort(_)
\* edges_list.sort(), line 281
sort(s) == IF s = <<>> THEN <<>> ELSE InsertEdge(s[Len(s)], sort(SubSeq(s, 1, Len(s) - 1)))

\* root_group.compute_sys_graph(comps_only=True): one node per component that
\* owns a variable, one edge owner(source) -> owner(target) per connection
compute_sys_graph(in2out) ==
  [nodes |-> {rsplit0(v) : v \in AllInputs(model) \cup AllOutputs(model)},
   edges |-> {<<rsplit0(in2out[i][2]), rsplit0(in2out[i][1])>> :
                i \in {j \in 1..Len(in2out) : in2out[j][2] # None}}]

RECURSIVE Closure(_, _)
\* the pairs joined by a path of at most 2^n edges of R
Closure(R, n) ==
  IF n = 0 THEN R
  ELSE LET C == Closure(R, n - 1)
       IN  C \cup {<<x[1][1], x[2][2]>> : x \in {y \in C \X C : y[1][2] = y[2][1]}}

\* nx.strongly_connected_components(g)
strongly_connected_components(g) ==
  LET R == Closure(g.edges, Cardinality(g.nodes))
  IN  {{m \in g.nodes : m = n \/ (<<n, m>> \in R /\ <<m, n>> \in R)} : n \in g.nodes}

\* G.subgraph(nodes).edges()
subgraph_edges(g, nodes) == {e \in g.edges : e[1] \in nodes /\ e[2] \in nodes}

Min(a, b) == IF a < b THEN a ELSE b

Max(a, b) == IF a > b THEN a ELSE b

\* lines 227-238
SortConnections(p) ==
  /\ pc[p] = "tree_done"
  /\ LET s == sorted(conn_global_abs_in2out[p])
         g == compute_sys_graph(s)
     IN  /\ sorted_abs_input2src' = [sorted_abs_input2src EXCEPT ![p] = s]
         /\ conn_global_abs_in2out' = [conn_global_abs_in2out EXCEPT ![p] = s]
         /\ G' = [G EXCEPT ![p] = g]
         /\ scc_list' = [scc_list EXCEPT ![p] =
                {c \in strongly_connected_components(g) : Cardinality(c) > 1}]
  /\ connections_list' = [connections_list EXCEPT ![p] = <<>>]
  /\ sys_pathnames_list' = [sys_pathnames_list EXCEPT ![p] = <<>>]
  /\ sys_pathnames_dict' = [sys_pathnames_dict EXCEPT ![p] = EmptyDict]
  /\ pos' = [pos EXCEPT ![p] = 1]
  /\ pc' = [pc EXCEPT ![p] = "conns"]
  /\ UNCHANGED <<data_source, model, in2out_before, treeVars, pending, edges_list, result>>

\* the item the loop of line 240 is at
in_abs(p) == sorted_abs_input2src[p][pos[p]][1]

out_abs(p) == sorted_abs_input2src[p][pos[p]][2]

src_subsystem(p) == rsplit0(out_abs(p))

tgt_subsystem(p) == rsplit0(in_abs(p))

src_to_tgt_str(p) == JoinSpace(src_subsystem(p), tgt_subsystem(p))

\* line 241 without the test: an item without a source is processed too
no_source_never(out) == FALSE

\* line 241: the item has no source
no_source(out) == out = None

\* line 262 without the filter: every member of li
window_nodes_all(orders, li, exe_low, exe_high) == li

\* line 262: the members of li whose execution index lies in the window
window_nodes(orders, li, exe_low, exe_high) ==
  {n \in li : exe_low <= orders[n] /\ orders[n] <= exe_high}

\* lines 240-262: the next item, up to the construction of subg
NextConnection(p) ==
  /\ pc[p] = "conns"
  /\ pos[p] <= Len(sorted_abs_input2src[p])
  /\ IF no_source(out_abs(p))
     THEN /\ pos' = [pos EXCEPT ![p] = @ + 1]
          /\ UNCHANGED <<pc, pending, edges_list>>
     ELSE LET lis == {li \in scc_list[p] :
                        src_subsystem(p) \in li /\ tgt_subsystem(p) \in li}
          IN  /\ pos' = pos
              /\ edges_list' = [edges_list EXCEPT ![p] = <<>>]
              /\ IF lis = {}
                 THEN /\ pending' = [pending EXCEPT ![p] = {}]
                      /\ pc' = [pc EXCEPT ![p] = "edges"]
                 ELSE IF Cardinality(lis) > 1
                 THEN /\ pending' = pending
                      /\ pc' = [pc EXCEPT ![p] = "ValueError"]
                 ELSE LET li == CHOOSE l \in lis : TRUE
                      IN  IF \E n \in li : n \notin DOMAIN comp_exec_orders[p]
                          THEN /\ pending' = pending
                               /\ pc' = [pc EXCEPT ![p] = "KeyError"]
                          ELSE LET exe_tgt == comp_exec_orders[p][tgt_subsystem(p)]
                                   exe_src == comp_exec_orders[p][src_subsystem(p)]
                                   exe_low == Min(exe_tgt, exe_src)
                                   exe_high == Max(exe_tgt, exe_src)
                                   nodes == window_nodes(comp_exec_orders[p], li,
                                                         exe_low, exe_high)
                               IN  /\ pending' = [pending EXCEPT ![p] =
                                          subgraph_edges(G[p], nodes)]
                                   /\ pc' = [pc EXCEPT ![p] = "edges"]
  /\ UNCHANGED <<data_source, model, in2out_before, conn_global_abs_in2out, treeVars,
                 sorted_abs_input2src, G, scc_list, sys_pathnames_list,
                 sys_pathnames_dict, connections_list, result>>

\* lines 269-272 recording len instead of len - 1
Register_len(lst, dct, pathname) ==
  IF pathname \notin DOMAIN dct
  THEN [list |-> Append(lst, pathname),
        dict |-> (pathname :> Len(Append(lst, pathname))) @@ dct]
  ELSE [list |-> lst, dict |-> dct]

\* lines 269-272 for one pathname: the list and the dict after the lookup
Register(lst, dct, pathname) ==
  IF pathname \notin DOMAIN dct
  THEN [list |-> Append(lst, pathname),
        dict |-> (pathname :> (Len(Append(lst, pathname)) - 1)) @@ dct]
  ELSE [list |-> lst, dict |-> dct]

\* lines 264-265 without the comparison: every edge of subg is taken
is_cycle_arrow_any(edge, src_to_tgt) == TRUE

\* lines 264-265: the edge is not the connection's own source -> target edge
is_cycle_arrow(edge, src_to_tgt) == JoinSpace(edge[1], edge[2]) # src_to_tgt

\* lines 263-278: one edge of subg.edges(), in whatever order the graph
\* library yields them
EdgeStep(p) ==
  /\ pc[p] = "edges"
  /\ \E edge \in pending[p] :
       /\ pending' = [pending EXCEPT ![p] = @ \ {edge}]
       /\ IF is_cycle_arrow(edge, src_to_tgt_str(p))
          THEN LET r1 == Register(sys_pathnames_list[p], sys_pathnames_dict[p], edge[1])
                   r2 == Register(r1.list, r1.dict, edge[2])
               IN  /\ sys_pathnames_list' = [sys_pathnames_list EXCEPT ![p] = r2.list]
                   /\ sys_pathnames_dict' = [sys_pathnames_dict EXCEPT ![p] = r2.dict]
                   /\ edges_list' = [edges_list EXCEPT ![p] =
                          Append(@, <<r2.dict[edge[1]], r2.dict[edge[2]]>>)]
          ELSE UNCHANGED <<sys_pathnames_list, sys_pathnames_dict, edges_list>>
  /\ UNCHANGED <<data_source, model, in2out_before, conn_global_abs_in2out, pc, treeVars,
                 sorted_abs_input2src, G, scc_list, pos, connections_list, result>>

\* lines 280-285
EmitConnection(p) ==
  /\ pc[p] = "edges"
  /\ pending[p] = {}
  /\ connections_list' = [connections_list EXCEPT ![p] =
        IF edges_list[p] # <<>>
        THEN Append(@, [src |-> out_abs(p), tgt |-> in_abs(p),
                        cycle_arrows |-> sort(edges_list[p])])
        ELSE Append(@, [src |-> out_abs(p), tgt |-> in_abs(p)])]
  /\ edges_list' = [edges_list EXCEPT ![p] = <<>>]
  /\ pos' = [pos EXCEPT ![p] = @ + 1]
  /\ pc' = [pc EXCEPT ![p] = "conns"]
  /\ UNCHANGED <<data_source, model, in2out_before, conn_global_abs_in2out, treeVars,
                 sorted_abs_input2src, G, scc_list, pending, sys_pathnames_list,
                 sys_pathnames_dict, result>>

driver_type == IF data_source.driver = "DOEDriver" THEN "doe" ELSE "optimization"

\* lines 287-298
Finish(p) ==
  /\ pc[p] = "conns"
  /\ pos[p] > Len(sorted_abs_input2src[p])
  /\ result' = [result EXCEPT ![p] =
        [tree |-> tree[p],
         sys_pathnames_list |-> sys_pathnames_list[p],
         connections_list |-> connections_list[p],
         abs2prom |-> "_var_abs2prom",
         driver |-> IF data_source.kind = "Problem"
                    THEN [name |-> data_source.driver, type |-> driver_type]
                    ELSE [name |-> "None", type |-> "None"],
         design_vars |-> "get_design_vars",
         responses |-> "get_responses",
         declare_partials_list |-> _get_declare_partials(Root, p)]]
  /\ pc' = [pc EXCEPT ![p] = "done"]
  /\ UNCHANGED <<data_source, model, in2out_before, conn_global_abs_in2out, treeVars, connVars>>

Next ==
  \E p \in Procs :
    \/ Start(p)
    \/ VisitComponent(p)
    \/ EnterGroup(p)
    \/ ReturnGroup(p)
    \/ Allgather(p)
    \/ AllgatherReturn(p)
    \/ SortConnections(p)
    \/ NextConnection(p)
    \/ EdgeStep(p)
    \/ EmitConnection(p)
    \/ Finish(p)

Spec == Init /\ [][Next]_vars

(* ------------------------------------------------------------------ *)
(* Properties                                                           *)
(* ------------------------------------------------------------------ *)
\* the build goes past the dispatch of lines 190-220
Builds ==
  \/ data_source.kind = "Problem" /\ data_source.model = "Group"
  \/ data_source.kind = "Group" /\ data_source.model = "root"

\* the component that declares variable v
OwnerOf(v) ==
  CHOOSE c \in Components(model) : v \in ToSet(model[c].input) \cup ToSet(model[c].output)

\* the connections of the model handed to process p, as (input, source) items
Items(p) == ToSet(in2out_before[p])

\* the component graph: owner(source) -> owner(target) of every connection
ConnEdges(p) ==
  {<<OwnerOf(it[2]), OwnerOf(it[1])>> : it \in {x \in Items(p) : x[2] # None}}

RECURSIVE ReachSet(_, _)
\* the nodes reachable from S along E
ReachSet(E, S) ==
  LET T == S \cup {e[2] : e \in {x \in E : x[1] \in S}}
  IN  IF T = S THEN S ELSE ReachSet(E, T)

\* the strongly connected component of a
CycleOf(E, a) == {n \in ReachSet(E, {a}) : a \in ReachSet(E, {n})}

\* a and b lie in a common SCC set of more than one member
InCommonCycle(E, a, b) == b \in CycleOf(E, a) /\ Cardinality(CycleOf(E, a)) > 1

Between(x, a, b) == (a <= x /\ x <= b) \/ (b <= x /\ x <= a)

\* the cycle arrows connection e must carry on process p
ExpectedArrows(p, e) ==
  LET so == OwnerOf(e.src)
      to == OwnerOf(e.tgt)
      E == ConnEdges(p)
      o == comp_exec_orders[p]
  IN  IF InCommonCycle(E, so, to)
      THEN {x \in E : /\ x[1] \in CycleOf(E, so)
                      /\ x[2] \in CycleOf(E, so)
                      /\ Between(o[x[1]], o[so], o[to])
                      /\ Between(o[x[2]], o[so], o[to])} \ {<<so, to>>}
      ELSE {}

HasArrows(e) == "cycle_arrows" \in DOMAIN e

ValidIndex(p, a) ==
  /\ a[1] \in 0..(Len(sys_pathnames_list[p]) - 1)
  /\ a[2] \in 0..(Len(sys_pathnames_list[p]) - 1)

\* the edge an arrow [src, tgt] stands for
Resolve(p, a) == <<sys_pathnames_list[p][a[1] + 1], sys_pathnames_list[p][a[2] + 1]>>

Ascending(arrows) ==
  \A i, j \in 1..Len(arrows) :
    i < j => \/ arrows[i][1] < arrows[j][1]
             \/ arrows[i][1] = arrows[j][1] /\ arrows[i][2] <= arrows[j][2]

\* the map of the feedback pair A -> B, B -> A
FeedbackPair(p) ==
  /\ model = HPair
  /\ Items(p) = {<<Sub(cA, "x"), Sub(cB, "y")>>, <<Sub(cB, "x"), Sub(cA, "y")>>}

\* C1: every emitted connection carries cycle_arrows exactly when the edges of
\* the component graph induced on the members of its SCC inside the execution
\* window, minus its own owner(source) -> owner(target) edge, are not empty;
\* the arrows are then exactly those edges, each once, as index pairs in
\* ascending order.  For the feedback pair A -> B, B -> A each of the two
\* connections carries the other connection's edge.
C1_CycleArrowsExact ==
  \A p \in Procs :
    /\ \A k \in 1..Len(connections_list[p]) :
         LET e == connections_list[p][k]
             X == ExpectedArrows(p, e)
         IN  /\ HasArrows(e) <=> X # {}
             /\ HasArrows(e) =>
                  /\ e.cycle_arrows # <<>>
                  /\ \A i \in 1..Len(e.cycle_arrows) : ValidIndex(p, e.cycle_arrows[i])
                  /\ {Resolve(p, e.cycle_arrows[i]) : i \in 1..Len(e.cycle_arrows)} = X
                  /\ Len(e.cycle_arrows) = Cardinality(X)
                  /\ Ascending(e.cycle_arrows)
    /\ (FeedbackPair(p) /\ Len(connections_list[p]) = 2) =>
         LET e1 == connections_list[p][1]
             e2 == connections_list[p][2]
         IN  /\ HasArrows(e1) /\ HasArrows(e2)
             /\ Len(e1.cycle_arrows) = 1 /\ Len(e2.cycle_arrows) = 1
             /\ Resolve(p, e1.cycle_arrows[1]) = <<OwnerOf(e2.src), OwnerOf(e2.tgt)>>
             /\ Resolve(p, e2.cycle_arrows[1]) = <<OwnerOf(e1.src), OwnerOf(e1.tgt)>>

\* a finished build of the feedback pair in which both connections carry arrows
C1_Witness ==
  \E p \in Procs :
    /\ pc[p] = "done"
    /\ FeedbackPair(p)
    /\ Len(connections_list[p]) = 2
    /\ HasArrows(connections_list[p][1])
    /\ HasArrows(connections_list[p][2])

\* C8: both endpoints of every emitted cycle arrow are members of the SCC set
\* that holds the two owners of its connection, and their execution indices
\* lie between the execution indices of the two owners.
C8_ArrowsInsideWindow ==
  \A p \in Procs :
    \A k \in 1..Len(connections_list[p]) :
      LET e == connections_list[p][k]
          so == OwnerOf(e.src)
          to == OwnerOf(e.tgt)
          o == comp_exec_orders[p]
      IN  HasArrows(e) =>
            \A i \in 1..Len(e.cycle_arrows) :
              /\ ValidIndex(p, e.cycle_arrows[i])
              /\ InCommonCycle(ConnEdges(p), so, to)
              /\ \A n \in {Resolve(p, e.cycle_arrows[i])[1], Resolve(p, e.cycle_arrows[i])[2]} :
                   /\ n \in CycleOf(ConnEdges(p), so)
                   /\ Between(o[n], o[so], o[to])

\* a connection with an arrow whose SCC has a member outside the window
C8_Witness ==
  \E p \in Procs :
    /\ pc[p] = "done"
    /\ \E k \in 1..Len(connections_list[p]) :
         LET e == connections_list[p][k]
             so == OwnerOf(e.src)
             to == OwnerOf(e.tgt)
             o == comp_exec_orders[p]
         IN  /\ HasArrows(e)
             /\ \E n \in CycleOf(ConnEdges(p), so) : ~Between(o[n], o[so], o[to])

\* the arrows recorded so far on process p
ArrowsSoFar(p) ==
  ToSet(edges_list[p]) \cup
  UNION {ToSet(connections_list[p][k].cycle_arrows) :
           k \in {j \in 1..Len(connections_list[p]) : HasArrows(connections_list[p][j])}}

PathnameTable(p) ==
  /\ \A i, j \in 1..Len(sys_pathnames_list[p]) :
       i # j => sys_pathnames_list[p][i] # sys_pathnames_list[p][j]
  /\ DOMAIN sys_pathnames_dict[p] = ToSet(sys_pathnames_list[p])
  /\ \A i \in 1..Len(sys_pathnames_list[p]) :
       sys_pathnames_dict[p][sys_pathnames_list[p][i]] = i - 1
  /\ \A a \in ArrowsSoFar(p) : ValidIndex(p, a) /\ Resolve(p, a) \in ConnEdges(p)

IndexKept(p) ==
  \A path \in DOMAIN sys_pathnames_dict[p] :
    /\ path \in DOMAIN sys_pathnames_dict'[p]
    /\ sys_pathnames_dict'[p][path] = sys_pathnames_dict[p][path]
    /\ sys_pathnames_list'[p][sys_pathnames_dict[p][path] + 1] = path

\* C9: at every point of a build sys_pathnames_list has no duplicate,
\* sys_pathnames_dict maps each recorded pathname to its position in the list,
\* every index of an arrow is a position of the list that holds an endpoint of
\* an edge of the component graph, and no step changes an index once given.
C9_PathnameIndexTable ==
  /\ [](\A p \in Procs : PathnameTable(p))
  /\ [][\A p \in Procs : IndexKept(p)]_vars

\* a table of three pathnames whose discovery order is not the sorted order
C9_Witness ==
  \E p \in Procs :
    /\ pc[p] = "done"
    /\ Len(sys_pathnames_list[p]) >= 3
    /\ StrLess(sys_pathnames_list[p][2], sys_pathnames_list[p][1])
    /\ ArrowsSoFar(p) # {}

\* the connections_list returned by a finished build on process p
Returned(p) == result[p].connections_list

\* the map of the chain A -> B -> C, every other input without a source
Chain(p) ==
  /\ model = HFlat
  /\ {it \in Items(p) : it[2] # None} =
       {<<Sub(cB, "x"), Sub(cA, "y")>>, <<Sub(cC, "x"), Sub(cB, "y")>>}

\* C2: the returned connections_list holds exactly one entry for every input
\* of the connection map whose source is defined and none for an input whose
\* source is None; the chain A -> B -> C yields two entries without
\* cycle_arrows.
C2_OneEntryPerDefinedSource ==
  \A p \in Procs :
    (pc[p] = "done" /\ Builds) =>
      /\ \A k \in 1..Len(Returned(p)) : Returned(p)[k].src # None
      /\ \A it \in Items(p) :
           Cardinality({k \in 1..Len(Returned(p)) : Returned(p)[k].tgt = it[1]}) =
             IF it[2] = None THEN 0 ELSE 1
      /\ \A k \in 1..Len(Returned(p)) :
           <<Returned(p)[k].tgt, Returned(p)[k].src>> \in Items(p)
      /\ Chain(p) => /\ Len(Returned(p)) = 2
                     /\ ~HasArrows(Returned(p)[1])
                     /\ ~HasArrows(Returned(p)[2])

\* the finished build of the chain, which has inputs without a source
C2_Witness ==
  \E p \in Procs :
    /\ pc[p] = "done"
    /\ Builds
    /\ Chain(p)
    /\ \E it \in Items(p) : it[2] = None
    /\ Len(Returned(p)) = 2

\* C3 as stated: the returned connections_list is ascending in (source path,
\* target path).
C3_SortedBySourceThenTarget ==
  \A p \in Procs :
    (pc[p] = "done" /\ Builds) =>
      \A k \in 1..(Len(Returned(p)) - 1) :
        \/ StrLess(Returned(p)[k].src, Returned(p)[k + 1].src)
        \/ /\ Returned(p)[k].src = Returned(p)[k + 1].src
           /\ ~StrLess(Returned(p)[k + 1].tgt, Returned(p)[k].tgt)

\* C3 amended: the returned connections_list is strictly ascending in the
\* target path, whatever the iteration order of the connection map was.
C3_SortedByTarget ==
  \A p \in Procs :
    (pc[p] = "done" /\ Builds) =>
      \A k \in 1..(Len(Returned(p)) - 1) :
        StrLess(Returned(p)[k].tgt, Returned(p)[k + 1].tgt)

\* a finished build of a map that was iterated in another order than the
\* ascending one, with entries whose sources are in descending order
C3_Witness ==
  \E p \in Procs :
    /\ pc[p] = "done"
    /\ Builds
    /\ \E i \in 1..(Len(in2out_before[p]) - 1) :
         /\ in2out_before[p][i][2] # None
         /\ in2out_before[p][i + 1][2] # None
         /\ StrLess(in2out_before[p][i + 1][1], in2out_before[p][i][1])
    /\ \E k \in 1..(Len(Returned(p)) - 1) :
         StrLess(Returned(p)[k + 1].src, Returned(p)[k].src)

RECURSIVE LeavesFrom(_, _)
\* the leaf components below composite s from its subsystem i on, or the
\* component s itself, in depth-first order
LeavesFrom(s, i) ==
  IF ~isGroup(model, s) THEN <<s>>
  ELSE IF i > Len(model[s].subsystems) THEN <<>>
  ELSE LeavesFrom(model[s].subsystems[i], 1) \o LeavesFrom(s, i + 1)

LeavesInOrder == LeavesFrom(Root, 1)

TreeWalked(p) == pc[p] \in {"tree_done", "conns", "edges", "done", "KeyError"} /\ Builds

\* C4: once _get_tree_dict has returned, the execution-order map has one
\* entry for every leaf component of the hierarchy and none for a composite,
\* the values are 0..leafCount-1 in depth-first order, and the counter stands
\* at leafCount.
C4_ExecutionOrderTotal ==
  \A p \in Procs :
    TreeWalked(p) =>
      /\ DOMAIN comp_exec_orders[p] = ToSet(LeavesInOrder)
      /\ comp_exec_idx[p] = Len(LeavesInOrder)
      /\ \A i \in 1..Len(LeavesInOrder) : comp_exec_orders[p][LeavesInOrder[i]] = i - 1

AscendingByInput(m) ==
  \A i \in 1..(Len(m) - 1) : StrLess(m[i][1], m[i + 1][1])

RECURSIVE EachSubtreeOnce(_, _)
\* the tree node of composite s lists every subsystem of s once, and so do
\* the nodes below it
EachSubtreeOnce(node, s) ==
  ~isGroup(model, s) \/
    /\ Len(node.children) = Len(model[s].subsystems)
    /\ \A c \in ToSet(model[s].subsystems) :
         \E k \in 1..Len(node.children) :
           /\ node.children[k].name = name(c)
           /\ \A j \in 1..Len(node.children) : node.children[j].name = name(c) => j = k
           /\ EachSubtreeOnce(node.children[k], c)

\* the composites whose communicator has more than one process
Distributed == {s \in Systems(model) : isGroup(model, s) /\ comm_size(s) > 1}

\* C6: every process of a distributed composite enters its allgather once;
\* only a process that is rank 0 of the communicator of its first local child
\* hands over a non-empty list; after the gather every process holds the same
\* tree, in which every subsystem of every composite appears once; four
\* processes with one leaf each give a children list of four entries.
C6_DistributedReconciliation ==
  /\ \A s \in Distributed : \A r \in 0..(comm_size(s) - 1) :
       /\ Len(allgather[s][r]) <= 1
       /\ TreeWalked(model[s].comm[r + 1]) => Len(allgather[s][r]) = 1
       /\ (allgather[s][r] # <<>> /\ allgather[s][r][1] # <<>>) =>
            LET my == subsystems_myproc(s, model[s].comm[r + 1])
            IN  my = <<>> \/ model[my[1]].comm[1] = model[s].comm[r + 1]
  /\ \A p \in Procs : TreeWalked(p) =>
       /\ EachSubtreeOnce(tree[p], Root)
       /\ \A q \in Procs : TreeWalked(q) => tree[q] = tree[p]
       /\ model = HPar4 => Len(tree[p].children[1].children) = 4

\* four processes have merged the four leaves of the parallel group
C6_Witness ==
  /\ model = HPar4
  /\ \A p \in Procs : TreeWalked(p) /\ Len(tree[p].children[1].children) = 4

SnapshotKeys ==
  {"tree", "sys_pathnames_list", "connections_list", "abs2prom", "driver",
   "design_vars", "responses", "declare_partials_list"}

NoWalk(p) == comp_exec_idx[p] = 0 /\ stack[p] = <<>> /\ pos[p] = 0

\* C7 as stated: a Problem, a Group and a file name all return a mapping with
\* the snapshot keys.
C7_SameShapeForAllThree ==
  \A p \in Procs :
    (pc[p] = "done" /\ data_source.kind \in {"Problem", "Group", "str"}) =>
      DOMAIN result[p] = SnapshotKeys

\* C7 amended: a Problem whose model is a Group and a root Group return a
\* mapping with the snapshot keys; a Problem whose model is not a Group and a
\* Group that is not the root return an empty mapping without a walk; a file
\* name returns the stored metadata without a walk; any other kind raises
\* TypeError and returns nothing.
C7_DispatchOnDataSource ==
  \A p \in Procs :
    /\ pc[p] \in {"done", "TypeError"} /\ ~Builds => NoWalk(p)
    /\ pc[p] = "TypeError" <=>
         (pc[p] # "start" /\ data_source.kind \notin {"Problem", "Group", "str"})
    /\ pc[p] = "TypeError" => DOMAIN result[p] = {}
    /\ pc[p] = "done" =>
         /\ Builds => DOMAIN result[p] = SnapshotKeys
         /\ data_source.kind = "str" => result[p] = problem_metadata
         /\ (~Builds /\ data_source.kind \in {"Problem", "Group"}) =>
              DOMAIN result[p] = {}

\* a Group that is not the root has returned the empty mapping
C7_Witness ==
  \E p \in Procs :
    /\ pc[p] = "done"
    /\ data_source.kind = "Group"
    /\ data_source.model = "subgroup"
    /\ DOMAIN result[p] = {}

\* C10: no process of a build fails on a lookup in its execution-order map.
C10_NoMissingKey == \A p \in Procs : pc[p] # "KeyError"

====
